---- MODULE Spec2Model ----
(***************************************************************************)
(* Text chunkers of 01-why-ai-forgets: NaiveChunker, OverlapChunker,       *)
(* SentenceAwareChunker, ParagraphAwareChunker, the offset scan of         *)
(* MetadataPreservingChunker.chunk_with_metadata and                       *)
(* ChunkAnalyzer.analyze_chunks.                                           *)
(*                                                                         *)
(* A text is a sequence of one-character strings.  One call is one run of  *)
(* the machine: a Call action takes the constructor arguments and the      *)
(* text, the loop of the method is stepped one iteration per action, and   *)
(* the return statement ends the run (pc = "done").                        *)
(***************************************************************************)
EXTENDS Integers, Sequences, FiniteSets, TLC

VARIABLES
    op,              \* the method running: "none" before the call
    pc,              \* "idle", "loop" (inside the method's loop), "done"
    outcome,         \* "none", "ok" (returned) or "error" (raised)
    text,            \* the text argument
    chunk_size,      \* NaiveChunker / OverlapChunker / MetadataPreservingChunker .chunk_size
    overlap,         \* OverlapChunker.overlap
    target_size,     \* SentenceAwareChunker / ParagraphAwareChunker .target_size
    max_size,        \* SentenceAwareChunker.max_size
    chunks,          \* the list under construction, then the returned list
    start,           \* OverlapChunker.chunk: start
    units,           \* the list the for loop runs over (sentences, paragraphs, chunks)
    i,               \* number of elements of units already processed
    current_chunk,   \* the accumulator of the sentence and paragraph chunkers
    current_position,\* chunk_with_metadata: current_position
    starts,          \* chunk_with_metadata: the chunk_start located for each chunk so far
    problems         \* analyze_chunks: problems

vars == <<op, pc, outcome, text, chunk_size, overlap, target_size, max_size,
          chunks, start, units, i, current_chunk, current_position, starts,
          problems>>

----------------------------------------------------------------------------
(* Bounds of the model *)

\* longest text given to a chunker
MaxLen == 5
\* largest size argument (chunk_size, overlap, target_size, max_size)
MaxSize == 3
\* iterations of OverlapChunker's loop explored when the arguments make it endless
MaxIter == 6
\* longest chunk list given to the analyzer
MaxChunks == 2

----------------------------------------------------------------------------
(* Characters *)

SP == " "
NL == "\n"
\* characters of the generated texts: a letter, a sentence ending, a blank, a newline
Alphabet == {"a", ".", SP, NL}
\* what str.strip and the regex class \s remove, restricted to the alphabet
Whitespace == {SP, NL}

Min(a, b) == IF a < b THEN a ELSE b
Max(a, b) == IF a > b THEN a ELSE b

\* all sequences over S of length n, and of length 0..n
RECURSIVE SeqsOfLen(_, _)
SeqsOfLen(S, n) ==
    IF n = 0 THEN {<<>>} ELSE {Append(s, c) : s \in SeqsOfLen(S, n - 1), c \in S}

SeqsUpTo(S, n) == UNION {SeqsOfLen(S, k) : k \in 0 .. n}

Texts == SeqsUpTo(Alphabet, MaxLen)

\* texts for the two chunkers that cut at offsets and never look at a character
PlainAlphabet == {"a", SP}
PlainTexts == SeqsUpTo(PlainAlphabet, MaxLen)
\* size arguments tried, the non-positive ones included
Sizes == -1 .. MaxSize

\* Python's s[a:b] for integers a, b (negative indices count from the end)
PySlice(s, a, b) ==
    LET n  == Len(s)
        lo == IF a < 0 THEN Max(a + n, 0) ELSE Min(a, n)
        hi == IF b < 0 THEN Max(b + n, 0) ELSE Min(b, n)
    IN  IF lo >= hi THEN <<>> ELSE SubSeq(s, lo + 1, hi)

\* str.lstrip, str.rstrip, str.strip
RECURSIVE LStrip(_)
LStrip(s) == IF s # <<>> /\ Head(s) \in Whitespace THEN LStrip(Tail(s)) ELSE s

RECURSIVE RStrip(_)
RStrip(s) ==
    IF s # <<>> /\ s[Len(s)] \in Whitespace THEN RStrip(SubSeq(s, 1, Len(s) - 1)) ELSE s

Strip(s) == LStrip(RStrip(s))

\* sep.join(ss)
RECURSIVE Join(_, _)
Join(ss, sep) ==
    IF ss = <<>> THEN <<>>
    ELSE IF Len(ss) = 1 THEN ss[1]
    ELSE ss[1] \o sep \o Join(Tail(ss), sep)

\* first index >= k of s that holds no character of set cs, Len(s) + 1 if none
RECURSIVE RunEnd(_, _, _)
RunEnd(s, k, cs) == IF k <= Len(s) /\ s[k] \in cs THEN RunEnd(s, k + 1, cs) ELSE k

\* the concatenation of a list of strings
RECURSIVE Concat(_)
Concat(ss) == IF ss = <<>> THEN <<>> ELSE Head(ss) \o Concat(Tail(ss))

----------------------------------------------------------------------------
(* NaiveChunker.chunk *)

\* range(0, n, step) as a sequence; step # 0
RECURSIVE PyRange(_, _, _)
PyRange(from, n, step) ==
    IF step > 0 /\ from < n THEN <<from>> \o PyRange(from + step, n, step) ELSE <<>>

NaiveChunks(t, size) ==
    LET r == PyRange(0, Len(t), size)
    IN  [k \in 1 .. Len(r) |-> PySlice(t, r[k], r[k] + size)]

\* range() raises ValueError for a zero step, before any slice is taken
NaiveCall ==
    /\ pc = "idle"
    /\ \E t \in PlainTexts, size \in Sizes :
          /\ text' = t
          /\ chunk_size' = size
          /\ IF size = 0
             THEN outcome' = "error" /\ chunks' = <<>>
             ELSE outcome' = "ok" /\ chunks' = NaiveChunks(t, size)
    /\ op' = "naive"
    /\ pc' = "done"
    /\ UNCHANGED <<overlap, target_size, max_size, start, units, i,
                   current_chunk, current_position, starts, problems>>

----------------------------------------------------------------------------
(* OverlapChunker.chunk *)

\* a variant that ends every chunk one character early
OverlapEndShort(s, size, n) == Min(s + size - 1, n)

\* end = min(start + self.chunk_size, len(text))
OverlapEnd(s, size, n) == Min(s + size, n)

\* a variant that backs up one character too far
OverlapNextStartOffByOne(end, ov) == end - ov - 1

\* start = end - self.overlap
OverlapNextStart(end, ov) == end - ov

OverlapCall ==
    /\ pc = "idle"
    /\ \E t \in PlainTexts, size \in Sizes, ov \in Sizes :
          /\ text' = t
          /\ chunk_size' = size
          /\ overlap' = ov
    /\ op' = "overlap"
    /\ chunks' = <<>>
    /\ start' = 0
    /\ pc' = "loop"
    /\ UNCHANGED <<outcome, target_size, max_size, units, i, current_chunk,
                   current_position, starts, problems>>

\* one iteration of the while loop, its break included
OverlapStep ==
    /\ op = "overlap" /\ pc = "loop"
    /\ start < Len(text)
    /\ Len(chunks) < MaxIter
    /\ LET end == OverlapEnd(start, chunk_size, Len(text))
       IN  /\ chunks' = Append(chunks, PySlice(text, start, end))
           /\ start' = OverlapNextStart(end, overlap)
           /\ IF end = Len(text)
              THEN pc' = "done" /\ outcome' = "ok"
              ELSE pc' = "loop" /\ UNCHANGED outcome
    /\ UNCHANGED <<op, text, chunk_size, overlap, target_size, max_size, units, i,
                   current_chunk, current_position, starts, problems>>

\* the loop condition fails: return chunks
OverlapReturn ==
    /\ op = "overlap" /\ pc = "loop"
    /\ ~(start < Len(text))
    /\ pc' = "done"
    /\ outcome' = "ok"
    /\ UNCHANGED <<op, text, chunk_size, overlap, target_size, max_size, chunks, start,
                   units, i, current_chunk, current_position, starts, problems>>

----------------------------------------------------------------------------
(* SentenceAwareChunker *)

\* def __init__(self, target_size: int = 1000, max_size: int = 1200)
DefaultMaxSize == 1200

\* the class [.!?] of the lookbehind
SentenceEndings == {".", "!", "?"}

\* re.split(r'(?<=[.!?])\s+', t): the pieces between the whitespace runs that
\* follow a sentence ending; piece is the piece being read, k the next index
RECURSIVE SplitFrom(_, _, _)
SplitFrom(t, k, piece) ==
    IF k > Len(t) THEN <<piece>>
    ELSE IF k > 1 /\ t[k - 1] \in SentenceEndings /\ t[k] \in Whitespace
         THEN <<piece>> \o SplitFrom(t, RunEnd(t, k, Whitespace), <<>>)
         ELSE SplitFrom(t, k + 1, Append(piece, t[k]))

SplitSentences(t) == SplitFrom(t, 1, <<>>)

\* chunks.append(current_chunk.strip())
Flush(cs, cur) == Append(cs, Strip(cur))

\* current_chunk += " " + sentence
JoinSentence(cur, sentence) == cur \o <<SP>> \o sentence

\* a variant that starts the new chunk without appending the old one
SentenceBodyNoFlush(cs, cur, sentence, target, max) ==
    IF Len(cur) + Len(sentence) > max /\ cur # <<>>
    THEN [chunks |-> cs, current_chunk |-> sentence]
    ELSE IF Len(cur) + Len(sentence) <= target
    THEN [chunks |-> cs,
          current_chunk |-> IF cur # <<>> THEN JoinSentence(cur, sentence) ELSE sentence]
    ELSE IF Len(cur) + Len(sentence) <= max
    THEN [chunks |-> cs, current_chunk |-> JoinSentence(cur, sentence)]
    ELSE [chunks |-> IF cur # <<>> THEN Flush(cs, cur) ELSE cs,
          current_chunk |-> sentence]

\* a variant that cuts a sentence longer than max to max characters
SentenceBodyTruncating(cs, cur, sentence, target, max) ==
    IF Len(cur) + Len(sentence) > max /\ cur # <<>>
    THEN [chunks |-> Flush(cs, cur), current_chunk |-> PySlice(sentence, 0, max)]
    ELSE IF Len(cur) + Len(sentence) <= target
    THEN [chunks |-> cs,
          current_chunk |-> IF cur # <<>> THEN JoinSentence(cur, sentence) ELSE sentence]
    ELSE IF Len(cur) + Len(sentence) <= max
    THEN [chunks |-> cs, current_chunk |-> JoinSentence(cur, sentence)]
    ELSE [chunks |-> IF cur # <<>> THEN Flush(cs, cur) ELSE cs,
          current_chunk |-> PySlice(sentence, 0, max)]

\* the body of the for loop of SentenceAwareChunker.chunk for one sentence:
\* the new [chunks, current_chunk]
SentenceBody(cs, cur, sentence, target, max) ==
    IF Len(cur) + Len(sentence) > max /\ cur # <<>>
    THEN [chunks |-> Flush(cs, cur), current_chunk |-> sentence]
    ELSE IF Len(cur) + Len(sentence) <= target
    THEN [chunks |-> cs,
          current_chunk |-> IF cur # <<>> THEN JoinSentence(cur, sentence) ELSE sentence]
    ELSE IF Len(cur) + Len(sentence) <= max
    THEN [chunks |-> cs, current_chunk |-> JoinSentence(cur, sentence)]
    ELSE [chunks |-> IF cur # <<>> THEN Flush(cs, cur) ELSE cs,
          current_chunk |-> sentence]

\* if current_chunk: chunks.append(current_chunk.strip())
FinalFlush(cs, cur) == IF cur # <<>> THEN Flush(cs, cur) ELSE cs

\* the whole for loop over sentences ss from the state [chunks, current_chunk]
RECURSIVE SentenceLoop(_, _, _, _, _)
SentenceLoop(cs, cur, ss, target, max) ==
    IF ss = <<>> THEN FinalFlush(cs, cur)
    ELSE LET r == SentenceBody(cs, cur, Head(ss), target, max)
         IN  SentenceLoop(r.chunks, r.current_chunk, Tail(ss), target, max)

\* SentenceAwareChunker(target, max).chunk(t)
SentenceChunks(t, target, max) ==
    SentenceLoop(<<>>, <<>>, SplitSentences(t), target, max)

SentenceCall ==
    /\ pc = "idle"
    /\ \E t \in Texts, target \in Sizes, max \in Sizes :
          /\ text' = t
          /\ target_size' = target
          /\ max_size' = max
          /\ units' = SplitSentences(t)
    /\ op' = "sentence"
    /\ chunks' = <<>>
    /\ current_chunk' = <<>>
    /\ i' = 0
    /\ pc' = "loop"
    /\ UNCHANGED <<outcome, chunk_size, overlap, start, current_position, starts,
                   problems>>

\* one iteration of the for loop
SentenceStep ==
    /\ op = "sentence" /\ pc = "loop"
    /\ i < Len(units)
    /\ LET r == SentenceBody(chunks, current_chunk, units[i + 1], target_size, max_size)
       IN  /\ chunks' = r.chunks
           /\ current_chunk' = r.current_chunk
    /\ i' = i + 1
    /\ UNCHANGED <<op, pc, outcome, text, chunk_size, overlap, target_size, max_size,
                   start, units, current_position, starts, problems>>

\* the loop is over: the last flush and return chunks
SentenceReturn ==
    /\ op = "sentence" /\ pc = "loop"
    /\ i = Len(units)
    /\ chunks' = FinalFlush(chunks, current_chunk)
    /\ pc' = "done"
    /\ outcome' = "ok"
    /\ UNCHANGED <<op, text, chunk_size, overlap, target_size, max_size, start, units, i,
                   current_chunk, current_position, starts, problems>>

----------------------------------------------------------------------------
(* ParagraphAwareChunker *)

\* re.split(r'\n\n+', t): the pieces between the runs of two or more newlines
RECURSIVE ParaFrom(_, _, _)
ParaFrom(t, k, piece) ==
    IF k > Len(t) THEN <<piece>>
    ELSE IF t[k] = NL /\ k + 1 <= Len(t) /\ t[k + 1] = NL
         THEN <<piece>> \o ParaFrom(t, RunEnd(t, k, {NL}), <<>>)
         ELSE ParaFrom(t, k + 1, Append(piece, t[k]))

SplitParagraphs(t) == ParaFrom(t, 1, <<>>)

\* sentence_chunker = SentenceAwareChunker(self.target_size)
\* para_chunks = sentence_chunker.chunk(paragraph)
ParaChunks(paragraph, target) == SentenceChunks(paragraph, target, DefaultMaxSize)

\* the if/else both branches of ParagraphAwareChunker.chunk apply to a piece (a
\* paragraph, or a chunk of a split paragraph): the new [chunks, current_chunk]
FitOrFlush(cs, cur, piece, target) ==
    IF Len(cur) + Len(piece) <= target
    THEN [chunks |-> cs,
          current_chunk |-> IF cur # <<>> THEN cur \o <<NL, NL>> \o piece ELSE piece]
    ELSE [chunks |-> IF cur # <<>> THEN Append(cs, cur) ELSE cs,
          current_chunk |-> piece]

\* for pc in para_chunks: ...
RECURSIVE MergeLoop(_, _, _, _)
MergeLoop(cs, cur, pcs, target) ==
    IF pcs = <<>> THEN [chunks |-> cs, current_chunk |-> cur]
    ELSE LET r == FitOrFlush(cs, cur, Head(pcs), target)
         IN  MergeLoop(r.chunks, r.current_chunk, Tail(pcs), target)

\* the body of the for loop of ParagraphAwareChunker.chunk for one paragraph
ParagraphBody(cs, cur, raw, target) ==
    LET paragraph == Strip(raw)
    IN  IF paragraph = <<>> THEN [chunks |-> cs, current_chunk |-> cur]
        ELSE IF Len(paragraph) > target
        THEN MergeLoop(cs, cur, ParaChunks(paragraph, target), target)
        ELSE FitOrFlush(cs, cur, paragraph, target)

\* a variant that forgets the last accumulator
ParagraphFinalNoFlush(cs, cur) == cs

\* if current_chunk: chunks.append(current_chunk)
ParagraphFinal(cs, cur) == IF cur # <<>> THEN Append(cs, cur) ELSE cs

ParagraphCall ==
    /\ pc = "idle"
    /\ \E t \in Texts, target \in Sizes :
          /\ text' = t
          /\ target_size' = target
          /\ units' = SplitParagraphs(t)
    /\ op' = "paragraph"
    /\ chunks' = <<>>
    /\ current_chunk' = <<>>
    /\ i' = 0
    /\ pc' = "loop"
    /\ UNCHANGED <<outcome, chunk_size, overlap, max_size, start, current_position,
                   starts, problems>>

\* one iteration of the for loop over paragraphs
ParagraphStep ==
    /\ op = "paragraph" /\ pc = "loop"
    /\ i < Len(units)
    /\ LET r == ParagraphBody(chunks, current_chunk, units[i + 1], target_size)
       IN  /\ chunks' = r.chunks
           /\ current_chunk' = r.current_chunk
    /\ i' = i + 1
    /\ UNCHANGED <<op, pc, outcome, text, chunk_size, overlap, target_size, max_size,
                   start, units, current_position, starts, problems>>

ParagraphReturn ==
    /\ op = "paragraph" /\ pc = "loop"
    /\ i = Len(units)
    /\ chunks' = ParagraphFinal(chunks, current_chunk)
    /\ pc' = "done"
    /\ outcome' = "ok"
    /\ UNCHANGED <<op, text, chunk_size, overlap, target_size, max_size, start, units, i,
                   current_chunk, current_position, starts, problems>>

----------------------------------------------------------------------------
(* MetadataPreservingChunker.chunk_with_metadata: the scan that locates each  *)
(* chunk in the text (chunk_start, current_position).  The metadata computed  *)
(* from chunk_start and the chunk (section, has_list, word_count, ...) is not *)
(* part of the model.                                                         *)

\* Python's s.find(sub, from)
PyFind(s, sub, from) ==
    LET n  == Len(s)
        m  == Len(sub)
        lo == IF from < 0 THEN Max(from + n, 0) ELSE from
        at == {k \in lo .. (n - m) : SubSeq(s, k + 1, k + m) = sub}
    IN  IF at = {} THEN -1 ELSE CHOOSE k \in at : \A j \in at : k <= j

\* chunk_start = text.find(chunk, current_position)
LocateChunk(t, chunk, position) == PyFind(t, chunk, position)

\* sentence_chunker = SentenceAwareChunker(self.chunk_size); chunks = sentence_chunker.chunk(text)
BaseChunks(t, size) == SentenceChunks(t, size, DefaultMaxSize)

AnnotateCall ==
    /\ pc = "idle"
    /\ \E t \in Texts, size \in Sizes :
          /\ text' = t
          /\ chunk_size' = size
          /\ units' = BaseChunks(t, size)
    /\ op' = "annotate"
    /\ chunks' = <<>>
    /\ current_position' = 0
    /\ starts' = <<>>
    /\ i' = 0
    /\ pc' = "loop"
    /\ UNCHANGED <<outcome, overlap, target_size, max_size, start, current_chunk,
                   problems>>

\* one iteration of the for loop over the base chunks
AnnotateStep ==
    /\ op = "annotate" /\ pc = "loop"
    /\ i < Len(units)
    /\ LET chunk       == units[i + 1]
           chunk_start == LocateChunk(text, chunk, current_position)
       IN  /\ starts' = Append(starts, chunk_start)
           /\ current_position' = chunk_start + Len(chunk)
           /\ chunks' = Append(chunks, chunk)
    /\ i' = i + 1
    /\ UNCHANGED <<op, pc, outcome, text, chunk_size, overlap, target_size, max_size,
                   start, units, current_chunk, problems>>

AnnotateReturn ==
    /\ op = "annotate" /\ pc = "loop"
    /\ i = Len(units)
    /\ pc' = "done"
    /\ outcome' = "ok"
    /\ UNCHANGED <<op, text, chunk_size, overlap, target_size, max_size, chunks, start,
                   units, i, current_chunk, current_position, starts, problems>>

----------------------------------------------------------------------------
(* ChunkAnalyzer.analyze_chunks *)

\* self.sentence_endings
sentence_endings == {".", "!", "?"}

\* self.reference_phrases, in order
reference_phrases ==
    << <<"a", "s", " ", "m", "e", "n", "t", "i", "o", "n", "e", "d", " ", "a", "b", "o", "v", "e">>,
       <<"s", "e", "e", " ", "t", "a", "b", "l", "e">>,
       <<"f", "o", "l", "l", "o", "w", "i", "n", "g", " ", "t", "h", "e", " ", "p", "r", "e", "v", "i", "o", "u", "s">>,
       <<"a", "s", " ", "d", "e", "s", "c", "r", "i", "b", "e", "d", " ", "e", "a", "r", "l", "i", "e", "r">>,
       <<"r", "e", "f", "e", "r", " ", "t", "o", " ", "s", "e", "c", "t", "i", "o", "n">> >>

\* the bullet character U+2022 of the third marker
BULLET == "U+2022"

\* the tuple given to startswith
ListMarkers ==
    {<<"-", SP>>, <<"*", SP>>, <<BULLET, SP>>,
     <<"1", ".", SP>>, <<"2", ".", SP>>, <<"3", ".", SP>>}

\* characters of the generated chunks
AnalyzerAlphabet == {"a", ".", ":", "-", SP}

\* str.lower on the characters of the model
LowerChar(c) == IF c = "S" THEN "s" ELSE c
Lower(s) == [k \in 1 .. Len(s) |-> LowerChar(s[k])]

\* s.endswith(tuple(cs)) for one-character cs
EndsWithAny(s, cs) == s # <<>> /\ s[Len(s)] \in cs

\* s.startswith(prefix)
StartsWith(s, prefix) ==
    Len(prefix) <= Len(s) /\ SubSeq(s, 1, Len(prefix)) = prefix

\* sub in s
Contains(s, sub) == PyFind(s, sub, 0) # -1

\* chunk[:50] + "..."
ExampleLen == 50
Example(chunk) == PySlice(chunk, 0, ExampleLen) \o <<".", ".", ".">>

\* _extract_context(text, phrase, context_size=30)
ContextSize == 30
ExtractContext(t, phrase) ==
    LET idx == PyFind(Lower(t), phrase, 0)
    IN  IF idx = -1 THEN <<>>
        ELSE <<".", ".", ".">>
             \o PySlice(t, Max(0, idx - ContextSize),
                        Min(Len(t), idx + Len(phrase) + ContextSize))
             \o <<".", ".", ".">>

\* a variant that looks at the chunk itself instead of the one before it
MidSentenceOfCurrent(cs, k) == k > 0 /\ ~EndsWithAny(RStrip(cs[k + 1]), sentence_endings)

\* if i > 0 and not chunks[i-1].rstrip().endswith(tuple(self.sentence_endings))
\* (k is the index i of the code, cs[k + 1] its chunk)
MidSentence(cs, k) == k > 0 /\ ~EndsWithAny(RStrip(cs[k]), sentence_endings)

SemanticBreaks(cs, k) ==
    IF MidSentence(cs, k)
    THEN << [chunk_index |-> k, problem_type |-> "Semantic Break",
             description |-> <<"Chunk starts mid-sentence">>,
             example |-> Example(cs[k + 1])] >>
    ELSE <<>>

\* for phrase in self.reference_phrases: if phrase in chunk.lower(): ...
RECURSIVE ReferenceLosses(_, _, _)
ReferenceLosses(cs, k, phrases) ==
    IF phrases = <<>> THEN <<>>
    ELSE (IF Contains(Lower(cs[k + 1]), Head(phrases))
          THEN << [chunk_index |-> k, problem_type |-> "Reference Loss",
                   description |-> <<"Contains reference", Head(phrases)>>,
                   example |-> ExtractContext(cs[k + 1], Head(phrases))] >>
          ELSE <<>>)
         \o ReferenceLosses(cs, k, Tail(phrases))

\* a variant that flags a list item only in the first chunk
IsolatedListItemFirstOnly(cs, k) ==
    /\ \E m \in ListMarkers : StartsWith(Strip(cs[k + 1]), m)
    /\ k = 0

\* if chunk.strip().startswith((...)): if i == 0 or not chunks[i-1].rstrip().endswith(':')
IsolatedListItem(cs, k) ==
    /\ \E m \in ListMarkers : StartsWith(Strip(cs[k + 1]), m)
    /\ (k = 0 \/ ~EndsWithAny(RStrip(cs[k]), {":"}))

StructuralDestructions(cs, k) ==
    IF IsolatedListItem(cs, k)
    THEN << [chunk_index |-> k, problem_type |-> "Structural Destruction",
             description |-> <<"List item separated from header">>,
             example |-> Example(cs[k + 1])] >>
    ELSE <<>>

\* the problems one iteration of the for loop appends, for the chunk of index k
AnalyzeBody(cs, k) ==
    SemanticBreaks(cs, k) \o ReferenceLosses(cs, k, reference_phrases)
        \o StructuralDestructions(cs, k)

\* the nondecreasing lists of n cut positions in lo..hi
RECURSIVE CutLists(_, _, _)
CutLists(n, lo, hi) ==
    IF n = 0 THEN {<<>>}
    ELSE UNION {{<<c>> \o rest : rest \in CutLists(n - 1, c, hi)} : c \in lo .. hi}

\* t cut at the positions cuts: Len(cuts) + 1 chunks, empty ones included
RECURSIVE Pieces(_, _, _)
Pieces(t, from, cuts) ==
    IF cuts = <<>> THEN <<PySlice(t, from, Len(t))>>
    ELSE <<PySlice(t, from, Head(cuts))>> \o Pieces(t, Head(cuts), Tail(cuts))

AnalyzerTexts == SeqsUpTo(AnalyzerAlphabet, MaxLen)

\* a chunk list that holds a reference phrase
ReferenceSample ==
    << <<"a", ".">>, <<"S", "e", "e", SP, "t", "a", "b", "l", "e", ":">>, <<"-", SP, "a">> >>

\* the chunk lists given to the analyzer: the empty list, every way to cut a text
\* of AnalyzerTexts into 1..MaxChunks chunks, and ReferenceSample
AnalyzeCall ==
    /\ pc = "idle"
    /\ \/ units' = <<>>
       \/ units' = ReferenceSample
       \/ \E t \in AnalyzerTexts, n \in 1 .. MaxChunks :
             \E cuts \in CutLists(n - 1, 0, Len(t)) : units' = Pieces(t, 0, cuts)
    /\ op' = "analyze"
    /\ problems' = <<>>
    /\ i' = 0
    /\ pc' = "loop"
    /\ UNCHANGED <<outcome, text, chunk_size, overlap, target_size, max_size, chunks,
                   start, current_chunk, current_position, starts>>

\* one iteration of the for loop over chunks
AnalyzeStep ==
    /\ op = "analyze" /\ pc = "loop"
    /\ i < Len(units)
    /\ problems' = problems \o AnalyzeBody(units, i)
    /\ i' = i + 1
    /\ UNCHANGED <<op, pc, outcome, text, chunk_size, overlap, target_size, max_size,
                   chunks, start, units, current_chunk, current_position, starts>>

AnalyzeReturn ==
    /\ op = "analyze" /\ pc = "loop"
    /\ i = Len(units)
    /\ pc' = "done"
    /\ outcome' = "ok"
    /\ UNCHANGED <<op, text, chunk_size, overlap, target_size, max_size, chunks, start,
                   units, i, current_chunk, current_position, starts, problems>>

----------------------------------------------------------------------------

Init ==
    /\ op = "none"
    /\ pc = "idle"
    /\ outcome = "none"
    /\ text = <<>>
    /\ chunk_size = 0
    /\ overlap = 0
    /\ target_size = 0
    /\ max_size = 0
    /\ chunks = <<>>
    /\ start = 0
    /\ units = <<>>
    /\ i = 0
    /\ current_chunk = <<>>
    /\ current_position = 0
    /\ starts = <<>>
    /\ problems = <<>>

Next ==
    \/ NaiveCall
    \/ OverlapCall
    \/ OverlapStep
    \/ OverlapReturn
    \/ SentenceCall
    \/ SentenceStep
    \/ SentenceReturn
    \/ ParagraphCall
    \/ ParagraphStep
    \/ ParagraphReturn
    \/ AnnotateCall
    \/ AnnotateStep
    \/ AnnotateReturn
    \/ AnalyzeCall
    \/ AnalyzeStep
    \/ AnalyzeReturn

Spec == Init /\ [][Next]_vars

\* the loop of OverlapChunker.chunk alone, run to its end
OverlapNext == OverlapCall \/ OverlapStep \/ OverlapReturn

OverlapSpec == Init /\ [][OverlapNext]_vars /\ WF_vars(OverlapNext)

----------------------------------------------------------------------------
(* The size constraints of the four splitters *)

ValidNaive == chunk_size >= 1
ValidOverlap == chunk_size >= 1 /\ 0 <= overlap /\ overlap < chunk_size
ValidSentence == 1 <= target_size /\ target_size <= max_size
ValidParagraph == target_size >= 1

Splitters == {"naive", "overlap", "sentence", "paragraph"}

ValidSizes ==
    CASE op = "naive" -> ValidNaive
      [] op = "overlap" -> ValidOverlap
      [] op = "sentence" -> ValidSentence
      [] op = "paragraph" -> ValidParagraph
      [] OTHER -> TRUE

Returned(o) == op = o /\ pc = "done"

\* the characters of s that are not whitespace, in order
NonWhitespace(s) == SelectSeq(s, LAMBDA c : c \notin Whitespace)

----------------------------------------------------------------------------
(* C1 *)

\* the chunk is one sentence of ss, alone longer than limit
IsOversizedSentence(chunk, ss, limit) ==
    \E j \in 1 .. Len(ss) : Len(ss[j]) > limit /\ chunk = Strip(ss[j])

\* C1: with 1 <= target_size <= max_size, every chunk SentenceAwareChunker.chunk
\* returns has at most max_size characters, unless it is one single sentence that
\* alone is longer than max_size.
C1_NoOversize ==
    (Returned("sentence") /\ ValidSentence) =>
        \A k \in 1 .. Len(chunks) :
            \/ Len(chunks[k]) <= max_size
            \/ IsOversizedSentence(chunks[k], units, max_size)

----------------------------------------------------------------------------
(* C2 *)

\* the sentences ss can be cut into consecutive runs, in order, such that the
\* chunks cs are exactly the runs that hold a character, each run joined by single
\* blanks with the whitespace around it removed, and a sentence longer than limit
\* is a run of its own
RECURSIVE PacksWhole(_, _, _)
PacksWhole(ss, cs, limit) ==
    IF ss = <<>> THEN cs = <<>>
    ELSE \E m \in 1 .. Len(ss) :
            LET run    == SubSeq(ss, 1, m)
                rest   == SubSeq(ss, m + 1, Len(ss))
                joined == Join(run, <<SP>>)
            IN  /\ \A j \in 1 .. m : Len(run[j]) > limit => m = 1
                /\ IF joined = <<>>
                   THEN PacksWhole(rest, cs, limit)
                   ELSE /\ cs # <<>>
                        /\ Head(cs) = Strip(joined)
                        /\ PacksWhole(rest, Tail(cs), limit)

\* C2: with 1 <= target_size <= max_size, the chunks SentenceAwareChunker.chunk
\* returns are runs of consecutive whole sentences of the text in source order,
\* every sentence in exactly one chunk and none cut (up to the whitespace strip()
\* removes around a chunk), and a sentence that alone is longer than max_size is a
\* chunk by itself.
C2_SentenceAtomicity ==
    (Returned("sentence") /\ ValidSentence) => PacksWhole(units, chunks, max_size)

\* three sentences were returned in two chunks
C2_Witness ==
    /\ Returned("sentence") /\ ValidSentence
    /\ Len(chunks) = 2 /\ Len(units) = 3
    /\ \A j \in 1 .. Len(units) : units[j] # <<>>

----------------------------------------------------------------------------
(* C3 *)

\* C3: for valid sizes, the chunks of NaiveChunker concatenated are the text, and
\* the chunks of SentenceAwareChunker and of ParagraphAwareChunker concatenated
\* hold the non-whitespace characters of the text, all of them, once, in order.
C3_RoundTrip ==
    /\ (Returned("naive") /\ ValidNaive) => Concat(chunks) = text
    /\ (Returned("sentence") /\ ValidSentence) =>
           NonWhitespace(Concat(chunks)) = NonWhitespace(text)
    /\ (Returned("paragraph") /\ ValidParagraph) =>
           NonWhitespace(Concat(chunks)) = NonWhitespace(text)

\* a paragraph too long for target_size went through the sentence chunker and the
\* text came back in two chunks
C3_Witness ==
    /\ Returned("paragraph") /\ ValidParagraph
    /\ Len(chunks) >= 2
    /\ \E j \in 1 .. Len(units) : Len(Strip(units[j])) > target_size
    /\ NonWhitespace(text) # text

----------------------------------------------------------------------------
(* C4 *)

\* where chunk k starts if every chunk starts ov characters before the end of the
\* chunk before it, the first one at 0
RECURSIVE SpanStart(_, _, _)
SpanStart(cs, k, ov) ==
    IF k = 1 THEN 0 ELSE SpanStart(cs, k - 1, ov) + Len(cs[k - 1]) - ov

\* C4: with 0 <= overlap < chunk_size, chunk k+1 of OverlapChunker.chunk starts
\* exactly overlap characters before the end of chunk k (every chunk is the text at
\* the offset this gives), the last overlap characters of chunk k are the first
\* overlap characters of chunk k+1, and the spans cover every position of the text.
C4_OverlapExact ==
    (op = "overlap" /\ ValidOverlap) =>
        /\ \A k \in 1 .. Len(chunks) :
              LET at == SpanStart(chunks, k, overlap)
              IN  /\ at >= 0
                  /\ at + Len(chunks[k]) <= Len(text)
                  /\ chunks[k] = SubSeq(text, at + 1, at + Len(chunks[k]))
        /\ \A k \in 1 .. Len(chunks) - 1 :
              /\ Len(chunks[k]) >= overlap
              /\ Len(chunks[k + 1]) >= overlap
              /\ SubSeq(chunks[k], Len(chunks[k]) - overlap + 1, Len(chunks[k]))
                     = SubSeq(chunks[k + 1], 1, overlap)
        /\ pc = "done" =>
              \A q \in 0 .. Len(text) - 1 :
                 \E k \in 1 .. Len(chunks) :
                    LET at == SpanStart(chunks, k, overlap)
                    IN  at <= q /\ q < at + Len(chunks[k])

\* three chunks with a real overlap over a text of different characters
C4_Witness ==
    /\ Returned("overlap") /\ ValidOverlap
    /\ overlap >= 1
    /\ Len(chunks) >= 3
    /\ \E q \in 1 .. Len(text) - 1 : text[q] # text[q + 1]

----------------------------------------------------------------------------
(* C5 *)

\* C5: with 0 <= overlap < chunk_size, every iteration of the loop of
\* OverlapChunker.chunk that does not end the loop strictly increases start, and
\* the loop ends.
C5_Progress ==
    /\ [][(op = "overlap" /\ ValidOverlap /\ pc = "loop" /\ pc' = "loop")
            => start' > start]_vars
    /\ (op = "overlap" /\ ValidOverlap /\ pc = "loop") ~> (pc = "done")

\* the loop went round more than twice before it ended
C5_Witness ==
    /\ Returned("overlap") /\ ValidOverlap
    /\ overlap >= 1
    /\ Len(chunks) >= 3
    /\ start > 0

----------------------------------------------------------------------------
(* C6 *)

\* every paragraph of the text is longer than target_size, so every chunk carries
\* text of such a paragraph
AllParagraphsOversized ==
    \A j \in 1 .. Len(units) :
        Strip(units[j]) = <<>> \/ Len(Strip(units[j])) > target_size

\* C6: a paragraph longer than target_size is split by the sentence chunker with
\* target_size as target and as max: every chunk that carries text of it has at
\* most target_size characters, unless it is one single sentence alone longer than
\* target_size.
C6_FallbackBounded ==
    (Returned("paragraph") /\ ValidParagraph /\ AllParagraphsOversized) =>
        \A k \in 1 .. Len(chunks) :
            \/ Len(chunks[k]) <= target_size
            \/ \E j \in 1 .. Len(units) :
                  IsOversizedSentence(chunks[k], SplitSentences(Strip(units[j])),
                                      target_size)

----------------------------------------------------------------------------
(* C7 *)

\* C7: when the size arguments violate the constraints (overlap >= chunk_size,
\* target_size > max_size, a size <= 0) the call of a splitter ends in an error
\* before anything is processed: no chunk is produced and the call does not return
\* normally.
C7_InvalidRejected ==
    (op \in Splitters /\ ~ValidSizes) => (chunks = <<>> /\ outcome # "ok")

----------------------------------------------------------------------------
(* C8 *)

\* C8 as stated: for valid sizes every splitter returns no chunk for the empty
\* text and at least one chunk for every other text, whitespace-only text included.
C8_NonEmptyForNonEmpty ==
    (pc = "done" /\ op \in Splitters /\ ValidSizes) =>
        (chunks = <<>> <=> text = <<>>)

\* C8 as amended: ... except that ParagraphAwareChunker returns no chunk for a
\* text that holds only whitespace (it returns at least one chunk for every text
\* that holds another character).
C8_NonEmptyUnlessBlankParagraphs ==
    (pc = "done" /\ op \in Splitters /\ ValidSizes) =>
        IF op = "paragraph"
        THEN chunks = <<>> <=> NonWhitespace(text) = <<>>
        ELSE chunks = <<>> <=> text = <<>>

\* the sentence chunker returned a chunk for a text of whitespace only
C8_Witness ==
    /\ Returned("sentence") /\ ValidSentence
    /\ text # <<>> /\ NonWhitespace(text) = <<>>
    /\ chunks # <<>>

----------------------------------------------------------------------------
(* C9 *)

\* the last character of s that is not whitespace, "" if there is none
LastVisible(s) ==
    LET at == {j \in 1 .. Len(s) : s[j] \notin Whitespace}
    IN  IF at = {} THEN "" ELSE s[CHOOSE j \in at : \A q \in at : q <= j]

\* the Semantic Break problems reported for chunk index k
BreaksAt(k) ==
    {j \in 1 .. Len(problems) :
        problems[j].problem_type = "Semantic Break" /\ problems[j].chunk_index = k}

\* C9: analyze_chunks reports a Semantic Break with chunk index k exactly when
\* k > 0 and chunk k-1 without its trailing whitespace does not end with '.', '!'
\* or '?'; at most one per index, none at index 0.
C9_SemanticBreak ==
    op = "analyze" =>
        /\ \A k \in 0 .. i - 1 :
              Cardinality(BreaksAt(k)) =
                  (IF k > 0 /\ LastVisible(units[k]) \notin {".", "!", "?"} THEN 1 ELSE 0)
        /\ \A j \in 1 .. Len(problems) : problems[j].chunk_index \in 0 .. i - 1

\* a break was reported at index 1 for a chunk 0 that ends in whitespace after a
\* character that ends no sentence
C9_Witness ==
    /\ Returned("analyze")
    /\ Len(units) = 2
    /\ BreaksAt(1) # {}
    /\ LastVisible(units[1]) = ":"
    /\ units[1][Len(units[1])] = SP

----------------------------------------------------------------------------
(* C10 *)

\* C10: the start offsets chunk_with_metadata locates, in chunk order, are
\* positions of the text, and none lies before the end of the span located for the
\* chunk before it.
C10_MonotonicScan ==
    op = "annotate" =>
        \A k \in 1 .. Len(starts) :
            /\ starts[k] \in 0 .. Len(text)
            /\ k > 1 => starts[k] >= starts[k - 1] + Len(units[k - 1])

----------------------------------------------------------------------------
(* C11 *)

\* C11 as stated: with 0 <= overlap < chunk_size, OverlapChunker.chunk returns
\* exactly one chunk for every text with len(text) <= chunk_size.
C11_SingleChunk ==
    (Returned("overlap") /\ ValidOverlap /\ Len(text) <= chunk_size) =>
        Len(chunks) = 1

\* C11 as amended: with 0 <= overlap < chunk_size, OverlapChunker.chunk returns
\* exactly one chunk for every non-empty text with len(text) <= chunk_size, and no
\* chunk for the empty text.
C11_SingleChunkUnlessEmpty ==
    (Returned("overlap") /\ ValidOverlap /\ Len(text) <= chunk_size) =>
        Len(chunks) = (IF text = <<>> THEN 0 ELSE 1)

\* a text exactly chunk_size long came back as one chunk, with an overlap set
C11_Witness ==
    /\ Returned("overlap") /\ ValidOverlap
    /\ overlap >= 1
    /\ Len(text) = chunk_size
    /\ chunks = <<text>>

----------------------------------------------------------------------------
(* C12 *)

\* the chunk, without the whitespace around it, begins with a list marker
BeginsWithListMarker(chunk) == \E m \in ListMarkers : StartsWith(Strip(chunk), m)

\* the problems of one type reported for chunk index k
ProblemsAt(k, type) ==
    {j \in 1 .. Len(problems) :
        problems[j].problem_type = type /\ problems[j].chunk_index = k}

\* C12: for every index k > 0 whose chunk, trimmed, begins with a list marker,
\* analyze_chunks reports a problem at index k: a Semantic Break when chunk k-1
\* without its trailing whitespace ends with ':', a Structural Destruction
\* otherwise; such a chunk is never left unflagged.
C12_ListItemFlagged ==
    op = "analyze" =>
        \A k \in 1 .. i - 1 :
            BeginsWithListMarker(units[k + 1]) =>
                IF LastVisible(units[k]) = ":"
                THEN ProblemsAt(k, "Semantic Break") # {}
                ELSE ProblemsAt(k, "Structural Destruction") # {}

\* a list item after a chunk that ends a sentence: Structural Destruction is the
\* only problem reported for it
C12_Witness ==
    /\ Returned("analyze")
    /\ Len(units) = 2
    /\ BeginsWithListMarker(units[2])
    /\ LastVisible(units[1]) = "."
    /\ ProblemsAt(1, "Structural Destruction") # {}
    /\ ProblemsAt(1, "Semantic Break") = {}

====
